---------------------------- MODULE Spec2Model ----------------------------
(***************************************************************************)
(* Model of scripts/app_updater.py: the update decision engine             *)
(* (compare_versions), the tracker (version history) life cycle and the    *)
(* driver loop of main().                                                  *)
(*                                                                         *)
(* Strings are sequences of one-character strings, ordered by code point   *)
(* as Python orders str.  packaging.version.parse is modelled on the       *)
(* alphabet Chars; it raises InvalidVersion on a string that is no PEP 440 *)
(* version (packaging >= 22).                                              *)
(***************************************************************************)
EXTENDS Integers, Sequences, FiniteSets, TLC

VARIABLES
    pc,                     \* position of main(): "start", "load", "loop", "scrape", then where it
                            \* ended: "exit_missing_list" (line 505), "return_empty_list" (line 515),
                            \* "done" (line 556), "crashed" (an uncaught exception at line 517)
    env_GITHUB_OUTPUT,      \* the GITHUB_OUTPUT environment: "unset", "writable", "unwritable"
    urls_to_process,        \* main: the usable lines of URL_FILE
    url_idx,                \* main: index of page_url in urls_to_process
    tracking_file,          \* TRACKING_FILE on disk
    tracker_data,           \* main: the history returned by load_tracker
    all_updates_found,      \* main: records accepted so far
    updates_found_on_page,  \* scrape_farsroid_page: records of the page being scraped
    n_found_lis,            \* scrape_farsroid_page: len(found_lis)
    li_idx,                 \* scrape_farsroid_page: index i of the li being processed
    last_li,                \* the li processed by the last loop step, with its outcome
    page_content,           \* main: what get_page_source_with_selenium returned for page_url
    pages_fetched,          \* number of calls of get_page_source_with_selenium
    output_json,            \* OUTPUT_JSON_FILE on disk
    github_output,          \* lines appended to GITHUB_OUTPUT_FILE
    tracker_saved,          \* the tracking file was rewritten (line 548 was reached)
    exit_code,              \* exit status of the process, -1 while it runs
    cv_current,             \* compare_versions: argument current_v_str
    cv_last,                \* compare_versions: argument last_v_str
    cv_result,              \* compare_versions: outcome, "pending" before the call
    entry,                  \* one download entry: the texts of its page and of its li
    derived,                \* scrape_farsroid_page: what lines 336-478 derive from entry
    pages,                  \* the items of the page behind each URL, for runs over the same pages
    run                     \* number of runs of main that have ended

runVars == <<pc, env_GITHUB_OUTPUT, urls_to_process, url_idx, tracking_file,
             tracker_data, all_updates_found, updates_found_on_page, n_found_lis,
             li_idx, last_li, page_content, pages_fetched, output_json,
             github_output, tracker_saved, exit_code>>
cmpVars == <<cv_current, cv_last, cv_result>>
entryVars == <<entry, derived>>
rerunVars == <<pages, run>>
vars == <<runVars, cmpVars, entryVars, rerunVars>>

-----------------------------------------------------------------------------
(* Bounds *)

MaxLen == 3
MaxUrls == 2
MaxLis == 2

-----------------------------------------------------------------------------
(* Strings *)

Chars == {".", "0", "1", "a"}

Ord(c) ==
    CASE c = "." -> 46
      [] c = "0" -> 48
      [] c = "1" -> 49
      [] c = "a" -> 97

RECURSIVE StrUpTo(_)
StrUpTo(n) ==
    IF n = 0 THEN {<<>>}
    ELSE LET shorter == StrUpTo(n - 1)
         IN  shorter \cup {Append(s, c) : s \in {t \in shorter : Len(t) = n - 1}, c \in Chars}

\* Python str.__gt__: lexicographic by code point, a proper prefix is smaller
RECURSIVE StrGreater(_, _)
StrGreater(a, b) ==
    IF a = <<>> THEN FALSE
    ELSE IF b = <<>> THEN TRUE
    ELSE IF Ord(Head(a)) # Ord(Head(b)) THEN Ord(Head(a)) > Ord(Head(b))
    ELSE StrGreater(Tail(a), Tail(b))

-----------------------------------------------------------------------------
(* JSON values, as json.load returns them from the tracking file *)

JStr(s) == [type |-> "str", str |-> s, num |-> 0]
JNum(n) == [type |-> "number", str |-> <<>>, num |-> n]
JNull == [type |-> "null", str |-> <<>>, num |-> 0]

\* Python truth value of a JSON value: None, 0 and "" are falsy
Truthy(v) ==
    CASE v.type = "str" -> v.str # <<>>
      [] v.type = "number" -> v.num # 0
      [] v.type = "null" -> FALSE

ZeroVersion == <<"0", ".", "0", ".", "0">>

-----------------------------------------------------------------------------
(* packaging.version.parse and the ordering of Version objects *)

IsDigit(c) == c \in {"0", "1"}
DigitVal(c) == IF c = "1" THEN 1 ELSE 0
AllDigits(s) == \A i \in 1..Len(s) : IsDigit(s[i])

\* int() of a group of digits
RECURSIVE IntOf(_)
IntOf(s) ==
    IF s = <<>> THEN 0
    ELSE 10 * IntOf(SubSeq(s, 1, Len(s) - 1)) + DigitVal(s[Len(s)])

\* str.split(".")
RECURSIVE SplitDots(_)
SplitDots(s) ==
    IF \A i \in 1..Len(s) : s[i] # "." THEN <<s>>
    ELSE LET i == CHOOSE j \in 1..Len(s) :
                      s[j] = "." /\ \A k \in 1..(j - 1) : s[k] # "."
         IN  <<SubSeq(s, 1, i - 1)>> \o SplitDots(SubSeq(s, i + 1, Len(s)))

\* the release segment [0-9]+(?:\.[0-9]+)* of VERSION_PATTERN
IsRelease(s) ==
    LET groups == SplitDots(s)
    IN  \A i \in 1..Len(groups) : groups[i] # <<>> /\ AllDigits(groups[i])

ReleaseOf(s) ==
    LET groups == SplitDots(s)
    IN  [i \in 1..Len(groups) |-> IntOf(groups[i])]

NoPre == -1
InvalidVersion == [valid |-> FALSE, release |-> <<>>, pre |-> NoPre]

\* Version(s): the release numbers and the number of the pre-release "a"
\* (NoPre when there is none); InvalidVersion when VERSION_PATTERN does not match
parse(s) ==
    IF \A i \in 1..Len(s) : s[i] # "a"
    THEN IF IsRelease(s)
         THEN [valid |-> TRUE, release |-> ReleaseOf(s), pre |-> NoPre]
         ELSE InvalidVersion
    ELSE LET i == CHOOSE j \in 1..Len(s) :
                      s[j] = "a" /\ \A k \in 1..(j - 1) : s[k] # "a"
             before == SubSeq(s, 1, i - 1)
             after == SubSeq(s, i + 1, Len(s))
             rel == IF before # <<>> /\ before[Len(before)] = "."
                    THEN SubSeq(before, 1, Len(before) - 1) ELSE before
             num == IF after # <<>> /\ after[1] = "." THEN Tail(after) ELSE after
         IN  IF IsRelease(rel) /\ AllDigits(num)
             THEN [valid |-> TRUE, release |-> ReleaseOf(rel), pre |-> IntOf(num)]
             ELSE InvalidVersion

\* _cmpkey: trailing zeros of the release do not count
RECURSIVE StripZeros(_)
StripZeros(r) ==
    IF r # <<>> /\ r[Len(r)] = 0 THEN StripZeros(SubSeq(r, 1, Len(r) - 1)) ELSE r

\* tuple.__gt__ on tuples of ints
RECURSIVE TupleGreater(_, _)
TupleGreater(a, b) ==
    IF a = <<>> THEN FALSE
    ELSE IF b = <<>> THEN TRUE
    ELSE IF Head(a) # Head(b) THEN Head(a) > Head(b)
    ELSE TupleGreater(Tail(a), Tail(b))

\* Version.__gt__: by release, then a pre-release sorts before the final release
VersionGreater(x, y) ==
    LET rx == StripZeros(x.release)
        ry == StripZeros(y.release)
    IN  IF rx # ry THEN TupleGreater(rx, ry)
        ELSE IF x.pre = NoPre THEN y.pre # NoPre
        ELSE y.pre # NoPre /\ x.pre > y.pre

VersionLess(x, y) == VersionGreater(y, x)

-----------------------------------------------------------------------------
(* compare_versions *)

BoolResult(b) == IF b THEN "True" ELSE "False"

\* current_v_str != last_v_str and current_v_str > last_v_str: a str is unequal
\* to every non-str value, and ordering a str against one raises TypeError
StringFallback(current_v_str, last_v_str) ==
    IF last_v_str.type # "str" THEN "TypeError"
    ELSE BoolResult(current_v_str # last_v_str.str
                    /\ StrGreater(current_v_str, last_v_str.str))

\* mutant: versions that parse to equal values are never an update
ParsedComparison_NoTiebreak(current_v_str, last_v_str) ==
    IF ~parse(current_v_str).valid THEN "InvalidVersion"
    ELSE IF last_v_str.type # "str" THEN "TypeError"
    ELSE IF ~parse(last_v_str.str).valid THEN "InvalidVersion"
    ELSE BoolResult(VersionGreater(parse(current_v_str), parse(last_v_str.str)))

\* the inner try block: parse both, then order the parsed versions
ParsedComparison(current_v_str, last_v_str) ==
    IF ~parse(current_v_str).valid THEN "InvalidVersion"
    ELSE IF last_v_str.type # "str" THEN "TypeError"
    ELSE IF ~parse(last_v_str.str).valid THEN "InvalidVersion"
    ELSE LET parsed_current == parse(current_v_str)
             parsed_last == parse(last_v_str.str)
         IN  IF VersionGreater(parsed_current, parsed_last) THEN "True"
             ELSE IF VersionLess(parsed_current, parsed_last) THEN "False"
             ELSE StringFallback(current_v_str, last_v_str)

\* mutant: the first-time-seen rule is applied before the empty-current rule
compare_versions_FirstSeenFirst(current_v_str, last_v_str) ==
    IF ~Truthy(last_v_str) \/ last_v_str = JStr(ZeroVersion) THEN "True"
    ELSE IF current_v_str = <<>> THEN "False"
    ELSE LET inner == ParsedComparison(current_v_str, last_v_str)
         IN  IF inner \in {"InvalidVersion", "TypeError"}
             THEN StringFallback(current_v_str, last_v_str)
             ELSE inner

\* "True", "False", or "TypeError" when the exception leaves the function: a
\* TypeError raised by the fallback of an inner handler reaches the outer
\* handler, whose return statement evaluates the same fallback again
compare_versions(current_v_str, last_v_str) ==
    IF current_v_str = <<>> THEN "False"
    ELSE IF ~Truthy(last_v_str) \/ last_v_str = JStr(ZeroVersion) THEN "True"
    ELSE LET inner == ParsedComparison(current_v_str, last_v_str)
             handled == IF inner \in {"InvalidVersion", "TypeError"}
                        THEN StringFallback(current_v_str, last_v_str)
                        ELSE inner
         IN  IF handled = "TypeError"
             THEN StringFallback(current_v_str, last_v_str)
             ELSE handled

-----------------------------------------------------------------------------
(* The tracker: a JSON object, tracking id -> last known version *)

TrackingIds == {"app_universal", "app_mod"}
V1 == <<"1">>
V11 == <<"1", ".", "1">>
\* the tracking id and version of the download entries the pages may hold
PageEntries == {<<"app_universal", V1>>, <<"app_universal", V11>>, <<"app_mod", V11>>}
HistoryValues == {JStr(V1), JStr(V11), JNum(5)}

EmptyDict == [k \in {} |-> JNull]
Dicts == UNION {[D -> HistoryValues] : D \in SUBSET TrackingIds}

\* dict.get(key, default)
DictGet(d, key, default) == IF key \in DOMAIN d THEN d[key] ELSE default

\* d[key] = value
DictSet(d, key, value) ==
    [k \in DOMAIN d \cup {key} |-> IF k = key THEN value ELSE d[k]]

MissingFile == [kind |-> "missing", data |-> EmptyDict]
CorruptFile == [kind |-> "corrupt", data |-> EmptyDict]
ObjectFile(d) == [kind |-> "object", data |-> d]
TrackingFiles == {MissingFile, CorruptFile} \cup {ObjectFile(d) : d \in Dicts}

\* a file whose bytes are no UTF-8 text, such as a write cut inside a multi-byte
\* character (the file is written with ensure_ascii=False)
UndecodableFile == [kind |-> "undecodable", data |-> EmptyDict]

\* {} when the file is missing or json.load raises JSONDecodeError
load_tracker(file) == IF file.kind = "object" THEN file.data ELSE EmptyDict

\* reading the file raises UnicodeDecodeError, which is no json.JSONDecodeError
load_tracker_raises(file) == file.kind = "undecodable"

\* mutant: the stored version is ignored, every entry counts as first seen
LastKnownVersion_Ignored(tracker, tracking_id) == JStr(ZeroVersion)

\* tracker_data.get(tracking_id, "0.0.0")
LastKnownVersion(tracker, tracking_id) == DictGet(tracker, tracking_id, JStr(ZeroVersion))

UpdateRecord(tracking_id, current_version) ==
    [tracking_id |-> tracking_id, version |-> current_version,
     current_version_for_tracking |-> current_version]

\* mutant: the saved tracker holds only the keys of this run's records
RECURSIVE MergeUpdates_Truncating(_, _)
MergeUpdates_Truncating(d, updates) ==
    IF updates = <<>> THEN EmptyDict
    ELSE DictSet(MergeUpdates_Truncating(d, SubSeq(updates, 1, Len(updates) - 1)),
                 updates[Len(updates)].tracking_id,
                 JStr(updates[Len(updates)].current_version_for_tracking))

\* new_tracker_data_for_save: the loaded tracker overwritten by every record in order
RECURSIVE MergeUpdates(_, _)
MergeUpdates(d, updates) ==
    IF updates = <<>> THEN d
    ELSE MergeUpdates(
             DictSet(d, Head(updates).tracking_id,
                     JStr(Head(updates).current_version_for_tracking)),
             Tail(updates))

-----------------------------------------------------------------------------
(* Inputs of a run *)

\* a line of URL_FILE: blank, a comment or a URL
LineKinds == {"blank", "comment", "url"}

RECURSIVE SeqsUpTo(_, _)
SeqsUpTo(S, n) ==
    IF n = 0 THEN {<<>>}
    ELSE LET shorter == SeqsUpTo(S, n - 1)
         IN  shorter \cup {Append(q, x) : q \in {t \in shorter : Len(t) = n - 1}, x \in S}

UrlFiles ==
    {[exists |-> FALSE, lines |-> <<>>]}
        \cup {[exists |-> TRUE, lines |-> l] : l \in SeqsUpTo(LineKinds, MaxUrls)}

\* [line.strip() for line in f if line.strip() and not line.startswith('#')]
IsUsableLine(line) == line \notin {"blank", "comment"}
UsableLines(lines) == SelectSeq(lines, IsUsableLine)

\* what get_page_source_with_selenium returns: None, "" or markup holding n_lis
\* li.download-link items (0 as well when the download box or its list is missing)
NoneSource == [kind |-> "None", n_lis |-> 0]
EmptySource == [kind |-> "empty", n_lis |-> 0]
Markup(n) == [kind |-> "markup", n_lis |-> n]

\* the outcomes of one fetch: the try block returns driver.page_source; the
\* except branch returns driver.page_source when a driver exists and still
\* answers, None otherwise
get_page_source_with_selenium ==
    {[raised |-> FALSE, page_source |-> p] :
        p \in {EmptySource} \cup {Markup(n) : n \in 0..MaxLis}}
        \cup {[raised |-> TRUE, page_source |-> p] :
                p \in {NoneSource, EmptySource} \cup {Markup(n) : n \in 0..MaxLis}}

\* not page_content
NoContent(source) == source.kind \in {"None", "empty"}

\* what the version patterns find in one text: the match of the first of
\* VERSION_REGEX_PATTERNS that matches and the match of the fallback pattern;
\* <<>> stands for no match
NoVersion == <<>>
NoMatch == [primary |-> NoVersion, fallback |-> NoVersion]
PrimaryMatch(v) == [primary |-> v, fallback |-> v]
FallbackMatch(v) == [primary |-> NoVersion, fallback |-> v]

\* mutant: the file name of the link is never searched
extract_version_TextOnly(text_content, url_content) ==
    IF text_content.primary # NoVersion THEN text_content.primary
    ELSE text_content.fallback

\* lines 259-276: the patterns on the text, then on the file name, then the
\* fallback pattern on the text, then on the file name, else None
extract_version_from_text_or_url(text_content, url_content) ==
    IF text_content.primary # NoVersion THEN text_content.primary
    ELSE IF url_content.primary # NoVersion THEN url_content.primary
    ELSE IF text_content.fallback # NoVersion THEN text_content.fallback
    ELSE url_content.fallback

\* an li.download-link of the page: its a.download-btn ("missing", "no_href" or
\* "href"), whether the anchor has a span.txt, the versions in the span's text
\* and in the file name of the href, and the tracking id its names give
DownloadLi(anchor, span, text, file, tracking_id) ==
    [anchor |-> anchor, span |-> span, text |-> text, file |-> file,
     tracking_id |-> tracking_id]

\* the items a page may hold
FoundLis ==
    {DownloadLi("missing", FALSE, NoMatch, NoMatch, ""),
     DownloadLi("no_href", TRUE, PrimaryMatch(V11), NoMatch, ""),
     DownloadLi("href", TRUE, NoMatch, NoMatch, ""),
     DownloadLi("href", FALSE, NoMatch, NoMatch, ""),
     DownloadLi("href", FALSE, NoMatch, FallbackMatch(V11), "app_mod"),
     DownloadLi("href", TRUE, FallbackMatch(V1), PrimaryMatch(V11), "app_universal")}
        \cup {DownloadLi("href", TRUE, PrimaryMatch(e[2]), NoMatch, e[1]) : e \in PageEntries}

\* line 343: link_text_span.text.strip() if link_text_span else ""
link_text(li) == IF li.span THEN li.text ELSE NoMatch

\* lines 339-351: the version of the item, None when the item has no link
current_version_of(li) ==
    IF li.anchor # "href" THEN NoVersion
    ELSE extract_version_from_text_or_url(link_text(li), li.file)

\* the item as the loop sees it: without a link (line 339), without a version
\* (line 349) or an entry with its tracking id and version; anchor, span and
\* file are those of the item
Li(li) ==
    LET current_version == current_version_of(li)
    IN  [kind |-> IF li.anchor # "href" THEN "no_link"
                  ELSE IF current_version = NoVersion THEN "no_version"
                  ELSE "entry",
         tracking_id |-> IF current_version = NoVersion THEN "" ELSE li.tracking_id,
         current_version |-> current_version,
         anchor |-> li.anchor, span |-> li.span, file |-> li.file]

NoLi == [li |-> [kind |-> "none", tracking_id |-> "", current_version |-> <<>>,
                 anchor |-> "missing", span |-> FALSE, file |-> NoMatch],
         last_known_version |-> JNull, outcome |-> "none"]

-----------------------------------------------------------------------------
(* The process summary signal *)

\* with open(GITHUB_OUTPUT_FILE, 'a') raises when the target cannot be written
SignalRaises == env_GITHUB_OUTPUT = "unwritable"

\* if os.getenv('GITHUB_OUTPUT'): append "updates_count=<n>"
WriteCount(n) ==
    IF env_GITHUB_OUTPUT = "writable" THEN Append(github_output, n) ELSE github_output

-----------------------------------------------------------------------------
(* main() *)

scrapeVars == <<updates_found_on_page, n_found_lis, li_idx, last_li, page_content>>

\* lines 500-515: the URL list is read; a missing or empty list ends the run
\* (sys.exit(1), and an uncaught exception of the signal's open(), give status 1)
MainStart ==
    /\ pc = "start"
    /\ \E url_file \in UrlFiles :
          IF ~url_file.exists
          THEN /\ output_json' = [written |-> TRUE, data |-> <<>>]
               /\ github_output' = WriteCount(0)
               /\ exit_code' = 1
               /\ pc' = "exit_missing_list"
               /\ UNCHANGED urls_to_process
          ELSE IF UsableLines(url_file.lines) = <<>>
          THEN /\ output_json' = [written |-> TRUE, data |-> <<>>]
               /\ github_output' = WriteCount(0)
               /\ exit_code' = IF SignalRaises THEN 1 ELSE 0
               /\ pc' = "return_empty_list"
               /\ UNCHANGED urls_to_process
          ELSE /\ urls_to_process' = UsableLines(url_file.lines)
               /\ pc' = "load"
               /\ UNCHANGED <<output_json, github_output, exit_code>>
    /\ UNCHANGED <<env_GITHUB_OUTPUT, url_idx, tracking_file, tracker_data,
                   all_updates_found, pages_fetched, tracker_saved>>
    /\ UNCHANGED scrapeVars
    /\ UNCHANGED cmpVars
    /\ UNCHANGED entryVars
    /\ UNCHANGED rerunVars

\* lines 517-518; an exception of load_tracker is not caught and ends the process
LoadTracker ==
    /\ pc = "load"
    /\ IF load_tracker_raises(tracking_file)
       THEN /\ exit_code' = 1
            /\ pc' = "crashed"
            /\ UNCHANGED <<tracker_data, all_updates_found, url_idx>>
       ELSE /\ tracker_data' = load_tracker(tracking_file)
            /\ all_updates_found' = <<>>
            /\ url_idx' = 1
            /\ pc' = "loop"
            /\ UNCHANGED exit_code
    /\ UNCHANGED <<env_GITHUB_OUTPUT, urls_to_process, tracking_file, pages_fetched,
                   output_json, github_output, tracker_saved>>
    /\ UNCHANGED scrapeVars
    /\ UNCHANGED cmpVars
    /\ UNCHANGED entryVars
    /\ UNCHANGED rerunVars

\* mutant: a page without content ends the loop over the URLs (break for continue)
FetchPage_Break ==
    /\ pc = "loop"
    /\ url_idx <= Len(urls_to_process)
    /\ \E fetch \in get_page_source_with_selenium :
      \E is_farsroid \in BOOLEAN :
          /\ page_content' = fetch.page_source
          /\ IF NoContent(fetch.page_source)
                 THEN /\ url_idx' = Len(urls_to_process) + 1
                      /\ n_found_lis' = 0
                      /\ li_idx' = 0
                      /\ pc' = "loop"
                 ELSE IF ~is_farsroid
                 THEN /\ url_idx' = url_idx + 1
                      /\ n_found_lis' = 0
                      /\ li_idx' = 0
                      /\ pc' = "loop"
                 ELSE /\ n_found_lis' = fetch.page_source.n_lis
                      /\ li_idx' = 1
                      /\ pc' = "scrape"
                      /\ UNCHANGED url_idx
    /\ pages_fetched' = pages_fetched + 1
    /\ updates_found_on_page' = <<>>
    /\ last_li' = NoLi
    /\ UNCHANGED <<env_GITHUB_OUTPUT, urls_to_process, tracking_file, tracker_data,
                   all_updates_found, output_json, github_output, tracker_saved, exit_code>>
    /\ UNCHANGED cmpVars
    /\ UNCHANGED entryVars
    /\ UNCHANGED rerunVars

\* lines 520-533, up to the call of scrape_farsroid_page and its lines 315-334;
\* is_farsroid is the test "farsroid.com" in page_url.lower() of line 529
FetchPage ==
    /\ pc = "loop"
    /\ url_idx <= Len(urls_to_process)
    /\ \E fetch \in get_page_source_with_selenium :
      \E is_farsroid \in BOOLEAN :
          /\ page_content' = fetch.page_source
          /\ IF NoContent(fetch.page_source) \/ ~is_farsroid
                 THEN /\ url_idx' = url_idx + 1
                      /\ n_found_lis' = 0
                      /\ li_idx' = 0
                      /\ pc' = "loop"
                 ELSE /\ n_found_lis' = fetch.page_source.n_lis
                      /\ li_idx' = 1
                      /\ pc' = "scrape"
                      /\ UNCHANGED url_idx
    /\ pages_fetched' = pages_fetched + 1
    /\ updates_found_on_page' = <<>>
    /\ last_li' = NoLi
    /\ UNCHANGED <<env_GITHUB_OUTPUT, urls_to_process, tracking_file, tracker_data,
                   all_updates_found, output_json, github_output, tracker_saved, exit_code>>
    /\ UNCHANGED cmpVars
    /\ UNCHANGED entryVars
    /\ UNCHANGED rerunVars

\* lines 336-496: one iteration of the loop over found_lis; an exception leaves
\* scrape_farsroid_page and is caught by main (lines 534-536)
ProcessLi ==
    /\ pc = "scrape"
    /\ li_idx <= n_found_lis
    /\ \E found_li \in FoundLis :
          LET li == Li(found_li) IN
          IF li.kind # "entry"
          THEN /\ last_li' = [li |-> li, last_known_version |-> JNull,
                              outcome |-> "skipped"]
               /\ li_idx' = li_idx + 1
               /\ UNCHANGED <<pc, url_idx, updates_found_on_page, n_found_lis>>
          ELSE LET last_known_version == LastKnownVersion(tracker_data, li.tracking_id)
                   is_update == compare_versions(li.current_version, last_known_version)
               IN  /\ last_li' = [li |-> li, last_known_version |-> last_known_version,
                                  outcome |-> is_update]
                   /\ IF is_update = "TypeError"
                      THEN /\ updates_found_on_page' = <<>>
                           /\ n_found_lis' = 0
                           /\ li_idx' = 0
                           /\ url_idx' = url_idx + 1
                           /\ pc' = "loop"
                      ELSE /\ updates_found_on_page' =
                                 IF is_update = "True"
                                 THEN Append(updates_found_on_page,
                                             UpdateRecord(li.tracking_id, li.current_version))
                                 ELSE updates_found_on_page
                           /\ li_idx' = li_idx + 1
                           /\ UNCHANGED <<pc, url_idx, n_found_lis>>
    /\ UNCHANGED <<env_GITHUB_OUTPUT, urls_to_process, tracking_file, tracker_data,
                   all_updates_found, page_content, pages_fetched, output_json,
                   github_output, tracker_saved, exit_code>>
    /\ UNCHANGED cmpVars
    /\ UNCHANGED entryVars
    /\ UNCHANGED rerunVars

\* line 497 and lines 530-531, 536: the page's records join all_updates_found
ScrapeReturn ==
    /\ pc = "scrape"
    /\ li_idx > n_found_lis
    /\ all_updates_found' = all_updates_found \o updates_found_on_page
    /\ updates_found_on_page' = <<>>
    /\ n_found_lis' = 0
    /\ li_idx' = 0
    /\ last_li' = NoLi
    /\ url_idx' = url_idx + 1
    /\ pc' = "loop"
    /\ UNCHANGED <<env_GITHUB_OUTPUT, urls_to_process, tracking_file, tracker_data,
                   page_content, pages_fetched, output_json, github_output, tracker_saved, exit_code>>
    /\ UNCHANGED cmpVars
    /\ UNCHANGED entryVars
    /\ UNCHANGED rerunVars

\* the outcomes of writing the tracking file (lines 545-550): it is rewritten, or
\* the exception is logged and the file is as open() or json.dump left it
TrackingFileAfterSave(new_tracker_data_for_save) ==
    {[saved |-> TRUE, file |-> ObjectFile(new_tracker_data_for_save)],
     [saved |-> FALSE, file |-> tracking_file],
     [saved |-> FALSE, file |-> CorruptFile]}

\* lines 538-556; an exception of the signal's open() ends the process with
\* status 1 after both files were written
Finish ==
    /\ pc = "loop"
    /\ url_idx > Len(urls_to_process)
    /\ output_json' = [written |-> TRUE, data |-> all_updates_found]
    /\ \E save \in TrackingFileAfterSave(MergeUpdates(tracker_data, all_updates_found)) :
          /\ tracking_file' = save.file
          /\ tracker_saved' = save.saved
    /\ github_output' = WriteCount(Len(all_updates_found))
    /\ exit_code' = IF SignalRaises THEN 1 ELSE 0
    /\ pc' = "done"
    /\ UNCHANGED <<env_GITHUB_OUTPUT, urls_to_process, url_idx, tracker_data,
                   all_updates_found, pages_fetched>>
    /\ UNCHANGED scrapeVars
    /\ UNCHANGED cmpVars
    /\ UNCHANGED entryVars
    /\ UNCHANGED rerunVars

-----------------------------------------------------------------------------
(* Specifications *)

RunStart(tracking_files) ==
    /\ pc = "start"
    /\ urls_to_process = <<>>
    /\ url_idx = 0
    /\ tracking_file \in tracking_files
    /\ tracker_data = EmptyDict
    /\ all_updates_found = <<>>
    /\ updates_found_on_page = <<>>
    /\ n_found_lis = 0
    /\ li_idx = 0
    /\ last_li = NoLi
    /\ page_content = NoneSource
    /\ pages_fetched = 0
    /\ output_json = [written |-> FALSE, data |-> <<>>]
    /\ github_output = <<>>
    /\ tracker_saved = FALSE
    /\ exit_code = -1

CompareIdle ==
    /\ cv_current = <<>>
    /\ cv_last = JNull
    /\ cv_result = "pending"

\* no entry is being derived
NoEntry == [name |-> <<>>, version |-> <<>>, tags |-> <<>>, ext |-> "", label |-> FALSE]
NoDerived == [done |-> FALSE]
EntryIdle == entry = NoEntry /\ derived = NoDerived

\* no pages are kept for a second run
RerunIdle == pages = <<>> /\ run = 0

\* a run whose signal target is unset (a local run) or a writable file
Init ==
    /\ RunStart(TrackingFiles)
    /\ env_GITHUB_OUTPUT \in {"unset", "writable"}
    /\ CompareIdle
    /\ EntryIdle
    /\ RerunIdle

Done == pc \in {"exit_missing_list", "return_empty_list", "done"}
Ended == Done \/ pc = "crashed"

Next ==
    \/ MainStart
    \/ LoadTracker
    \/ FetchPage
    \/ ProcessLi
    \/ ScrapeReturn
    \/ Finish

Spec == Init /\ [][Next]_vars

\* a run whose signal target may also be set and not writable
InitSignal ==
    /\ RunStart(TrackingFiles)
    /\ env_GITHUB_OUTPUT \in {"unset", "writable", "unwritable"}
    /\ CompareIdle
    /\ EntryIdle
    /\ RerunIdle

SpecSignal == InitSignal /\ [][Next]_vars

\* a run that may also find a tracking file whose bytes are no UTF-8 text
InitHistory ==
    /\ RunStart(TrackingFiles \cup {UndecodableFile})
    /\ env_GITHUB_OUTPUT \in {"unset", "writable"}
    /\ CompareIdle
    /\ EntryIdle
    /\ RerunIdle

SpecHistory == InitHistory /\ [][Next]_vars

-----------------------------------------------------------------------------
(* compare_versions as a function of its two arguments *)

VersionStrings == StrUpTo(MaxLen) \cup {ZeroVersion}
LastValues == {JStr(s) : s \in VersionStrings} \cup {JNull, JNum(0), JNum(5)}

\* main is not running
RunIdle ==
    /\ pc = "idle"
    /\ env_GITHUB_OUTPUT = "unset"
    /\ urls_to_process = <<>>
    /\ url_idx = 0
    /\ tracking_file = MissingFile
    /\ tracker_data = EmptyDict
    /\ all_updates_found = <<>>
    /\ updates_found_on_page = <<>>
    /\ n_found_lis = 0
    /\ li_idx = 0
    /\ last_li = NoLi
    /\ page_content = NoneSource
    /\ pages_fetched = 0
    /\ output_json = [written |-> FALSE, data |-> <<>>]
    /\ github_output = <<>>
    /\ tracker_saved = FALSE
    /\ exit_code = -1

InitCompare ==
    /\ RunIdle
    /\ cv_current \in VersionStrings
    /\ cv_last \in LastValues
    /\ cv_result = "pending"
    /\ EntryIdle
    /\ RerunIdle

CallCompare ==
    /\ cv_result = "pending"
    /\ cv_result' = compare_versions(cv_current, cv_last)
    /\ UNCHANGED <<cv_current, cv_last>>
    /\ UNCHANGED runVars
    /\ UNCHANGED entryVars
    /\ UNCHANGED rerunVars

NextCompare == CallCompare

SpecCompare == InitCompare /\ [][NextCompare]_vars

-----------------------------------------------------------------------------
(* Texts of a download entry.  A text is the sequence of its words (maximal
   runs of word characters) and of the separators between them (" ", "-",
   "."), so that a regular expression \b<keyword>\b matches where the
   keyword's tokens stand in a row.  A Persian word is written as its
   transliteration with the prefix fa_. *)

\* the least element of a non-empty set of numbers, and the greatest
Min(S) == CHOOSE x \in S : \A y \in S : x <= y
Max(S) == CHOOSE x \in S : \A y \in S : y <= x

\* is x an element of the sequence s
InSeq(x, s) == \E i \in 1..Len(s) : s[i] = x

\* re.search(r'\b' + re.escape(pattern) + r'\b', text)
Occurs(pattern, text) ==
    \E i \in 1..(Len(text) - Len(pattern) + 1) :
        SubSeq(text, i, i + Len(pattern) - 1) = pattern

\* lines 362-373: the canonical tags in scan order, each with its keywords
variant_keywords_ordered ==
    <<
       [key |-> "Mod-Extra", patterns |-> <<<<"mod", "-", "extra">>, <<"fa_mod", " ", "fa_ekstra">>>>],
       [key |-> "Mod-Lite", patterns |-> <<<<"mod", "-", "lite">>, <<"fa_mod", " ", "fa_lait">>>>],
       [key |-> "Ad-Free", patterns |-> <<<<"ad", "-", "free">>, <<"fa_bedun", " ", "fa_tabligat">>>>],
       [key |-> "Unlocked", patterns |-> <<<<"unlocked">>, <<"fa_anlak">>>>],
       [key |-> "Patched", patterns |-> <<<<"patched">>, <<"fa_pach", " ", "fa_shodeh">>>>],
       [key |-> "Premium", patterns |-> <<<<"premium">>, <<"fa_permium">>>>],
       [key |-> "Ultra", patterns |-> <<<<"ultra">>, <<"fa_ultra">>>>],
       [key |-> "Clone", patterns |-> <<<<"clone">>, <<"fa_klon">>>>],
       [key |-> "Beta", patterns |-> <<<<"beta">>, <<"fa_beta">>>>],
       [key |-> "Full", patterns |-> <<<<"full">>, <<"fa_kamel">>>>],
       [key |-> "Lite", patterns |-> <<<<"lite">>, <<"fa_lait">>>>],
       [key |-> "Main", patterns |-> <<<<"main">>>>],
       [key |-> "Pro", patterns |-> <<<<"pro">>, <<"fa_pro">>>>],
       [key |-> "VIP", patterns |-> <<<<"vip">>>>],
       [key |-> "Plus", patterns |-> <<<<"plus">>, <<"fa_plas">>>>],
       [key |-> "Persian", patterns |-> <<<<"persian">>, <<"fa_farsi">>>>],
       [key |-> "English", patterns |-> <<<<"english">>, <<"fa_englisi">>>>],
       [key |-> "Arm64-v8a", patterns |-> <<<<"arm64", "-", "v8a">>, <<"arm64">>>>],
       [key |-> "Armeabi-v7a", patterns |-> <<<<"armeabi", "-", "v7a">>, <<"armv7">>>>],
       [key |-> "x86_64", patterns |-> <<<<"x86_64">>>>],
       [key |-> "x86", patterns |-> <<<<"x86">>>>],
       [key |-> "Arm", patterns |-> <<<<"arm">>>>],
       [key |-> "Mod", patterns |-> <<<<"mod">>, <<"fa_mod">>>>],
       [key |-> "PC", patterns |-> <<<<"pc">>, <<"fa_kampiuter">>>>],
       [key |-> "Windows", patterns |-> <<<<"windows">>, <<"fa_vinduz">>>>],
       [key |-> "Data", patterns |-> <<<<"data">>, <<"obb">>, <<"fa_dita">>>>]
    >>

\* mutant: "Mod" is kept next to "Mod-Extra" and "Mod-Lite"
Suppressed_ModKept(key, parts) ==
    \/ key = "Lite" /\ InSeq("Mod-Lite", parts)
    \/ key = "Pro" /\ \E k \in {"Premium", "VIP", "Full", "Unlocked", "Plus"} : InSeq(k, parts)
    \/ key = "Full" /\ \E k \in {"Mod", "Premium", "VIP", "Unlocked", "Plus", "Pro"} :
                           InSeq(k, parts)

\* lines 379-382: the tag is not added because of the tags found so far
Suppressed(key, parts) ==
    \/ key = "Mod" /\ \E k \in {"Mod-Extra", "Mod-Lite"} : InSeq(k, parts)
    \/ key = "Lite" /\ InSeq("Mod-Lite", parts)
    \/ key = "Pro" /\ \E k \in {"Premium", "VIP", "Full", "Unlocked", "Plus"} : InSeq(k, parts)
    \/ key = "Full" /\ \E k \in {"Mod", "Premium", "VIP", "Unlocked", "Plus", "Pro"} :
                           InSeq(k, parts)

\* lines 377-384: the loop over the keywords of one tag; a keyword that matches
\* while the tag is suppressed is passed over, the first other match adds the
\* tag and ends the loop
RECURSIVE ScanPatterns(_, _, _, _)
ScanPatterns(key, patterns, text, parts) ==
    IF patterns = <<>> THEN parts
    ELSE IF Occurs(Head(patterns), text)
         THEN IF Suppressed(key, parts)
              THEN ScanPatterns(key, Tail(patterns), text, parts)
              ELSE IF InSeq(key, parts) THEN parts ELSE Append(parts, key)
         ELSE ScanPatterns(key, Tail(patterns), text, parts)

\* lines 376-384: the loop over the tags, from the i-th on; a tag none of
\* whose keywords occurs leaves the tags found so far as they are
RECURSIVE ScanKeys(_, _, _)
ScanKeys(i, text, parts) ==
    LET found == {j \in i..Len(variant_keywords_ordered) :
                      \E p \in 1..Len(variant_keywords_ordered[j].patterns) :
                          Occurs(variant_keywords_ordered[j].patterns[p], text)}
    IN  IF found = {} THEN parts
        ELSE ScanKeys(Min(found) + 1, text,
                      ScanPatterns(variant_keywords_ordered[Min(found)].key,
                                   variant_keywords_ordered[Min(found)].patterns,
                                   text, parts))

\* the tags found in temp_combined_text, in the order they were added
DetectVariants(text) == ScanKeys(1, text, <<>>)

\* Python's order of the tag strings, as sorted() gives it (line 402)
SortedTags ==
    <<"Ad-Free", "Arm", "Arm64-v8a", "Armeabi-v7a", "Beta", "Clone",
      "Data", "Default", "English", "Full", "Linux", "Lite", "Main", "Mod",
      "Mod-Extra", "Mod-Lite", "PC", "Patched", "Persian", "Plus",
      "Premium", "Pro", "Ultra", "Universal", "Unlocked", "VIP", "Windows",
      "macOS", "x86", "x86_64">>

\* the separators between words, the all-digit words and the Persian words
Separators == {" ", "-", "."}
DigitWords == {"0", "1", "2"}
PersianWords ==
    {
     "fa_anlak", "fa_arshiv", "fa_asli", "fa_ay", "fa_bedun", "fa_beta",
     "fa_dita", "fa_ekstra", "fa_englisi", "fa_farsi", "fa_font", "fa_kamel",
     "fa_kampiuter", "fa_klon", "fa_lait", "fa_linuks", "fa_mamuli",
     "fa_matn", "fa_mod", "fa_modekstra", "fa_modlait", "fa_orijinal",
     "fa_pach", "fa_permium", "fa_pi", "fa_plas", "fa_pro", "fa_sanad",
     "fa_shodeh", "fa_soti", "fa_tabligat", "fa_tasvir", "fa_ultra", "fa_vi",
     "fa_vidiu", "fa_vinduz", "fa_yuniversal"
    }

IsDigits(w) == w \in DigitWords

\* [a-zA-Z0-9]+ : a word of ASCII letters and digits only
IsAlnum(w) == w \notin Separators /\ w # "" /\ w \notin PersianWords /\ w # "x86_64"

\* str.lower() of a word
Lower(w) ==
    CASE w = "My" -> "my"
      [] w = "App" -> "app"
      [] w = "Tom" -> "tom"
      [] w = "Pro" -> "pro"
      [] OTHER -> w

LowerText(text) == [i \in 1..Len(text) |-> Lower(text[i])]

\* str.strip(chars) for separators
RECURSIVE StripChars(_, _)
StripChars(text, chars) ==
    IF text = <<>> THEN text
    ELSE IF Head(text) \in chars THEN StripChars(Tail(text), chars)
    ELSE IF text[Len(text)] \in chars THEN StripChars(SubSeq(text, 1, Len(text) - 1), chars)
    ELSE text

\* re.sub(r'\s+', ' ', text)
RECURSIVE CollapseSpaces(_)
CollapseSpaces(text) ==
    IF Len(text) < 2 THEN text
    ELSE IF text[1] = " " /\ text[2] = " " THEN CollapseSpaces(Tail(text))
    ELSE <<Head(text)>> \o CollapseSpaces(Tail(text))

\* \d+\.\d+ at position i of the text
IsVersionStart(text, i) ==
    /\ i + 2 <= Len(text)
    /\ IsDigits(text[i]) /\ text[i + 1] = "." /\ IsDigits(text[i + 2])

\* the end of the longest run (?:[-.]?[a-zA-Z0-9]+)* that follows position j;
\* further groups \.\d+ are part of such a run
RECURSIVE SuffixEnd(_, _)
SuffixEnd(text, j) ==
    IF j + 2 <= Len(text) /\ text[j + 1] \in {"-", "."} /\ IsAlnum(text[j + 2])
    THEN SuffixEnd(text, j + 2)
    ELSE j

\* lines 28-31 and 269: re.search of the version patterns in a text. The first
\* of VERSION_REGEX_PATTERNS (strict) wants the match not to follow a word
\* character, "." or "-" and not to be followed by "." or a word character,
\* and gives back suffix pieces until that holds; the second one matches only
\* where the first does; the fallback pattern has neither condition.
SearchVersion(text, strict) ==
    LET Ends(i) == {e \in (i + 2)..SuffixEnd(text, i + 2) :
                        /\ (e - i) % 2 = 0
                        /\ (e = Len(text) \/ text[e + 1] # ".")}
        Starts == {i \in 1..Len(text) :
                      /\ IsVersionStart(text, i)
                      /\ strict => /\ (i = 1 \/ text[i - 1] = " ")
                                   /\ Ends(i) # {}}
    IN  IF Starts = {} THEN NoVersion
        ELSE LET i == Min(Starts)
             IN  SubSeq(text, i, IF strict THEN Max(Ends(i)) ELSE SuffixEnd(text, i + 2))

\* what extract_version_from_text_or_url finds in one text; None and "" give
\* no match (lines 261, 265, 270, 273)
MatchesIn(text) ==
    [primary |-> SearchVersion(text, TRUE), fallback |-> SearchVersion(text, FALSE)]

\* re.sub of the first of VERSION_PATTERNS_FOR_CLEANING: every version, with
\* the white space before it, is removed
RECURSIVE SubVersions(_)
SubVersions(text) ==
    LET Starts == {i \in 1..Len(text) : IsVersionStart(text, i)}
    IN  IF Starts = {} THEN text
        ELSE LET i == Min(Starts)
                 first == IF i > 1 /\ text[i - 1] = " " THEN i - 1 ELSE i
                 last == SuffixEnd(text, i + 2)
             IN  SubSeq(text, 1, first - 1)
                     \o SubVersions(SubSeq(text, last + 1, Len(text)))

\* re.sub of the third of VERSION_PATTERNS_FOR_CLEANING, \s+\d+(?:\.\d+)*\b
RECURSIVE DottedEnd(_, _)
DottedEnd(text, j) ==
    IF j + 2 <= Len(text) /\ text[j + 1] = "." /\ IsDigits(text[j + 2])
    THEN DottedEnd(text, j + 2)
    ELSE j

RECURSIVE SubNumbers(_)
SubNumbers(text) ==
    LET Starts == {i \in 1..(Len(text) - 1) : text[i] = " " /\ IsDigits(text[i + 1])}
    IN  IF Starts = {} THEN text
        ELSE LET i == Min(Starts)
                 last == DottedEnd(text, i + 1)
             IN  SubSeq(text, 1, i - 1) \o SubNumbers(SubSeq(text, last + 1, Len(text)))

\* lines 137-139 (and 172-173): the version patterns are removed one after the
\* other, each followed by strip("-_ "); the second pattern finds nothing the
\* first has left
RemoveVersionPatterns(text) ==
    LET one == CollapseSpaces(StripChars(SubVersions(text), {"-", " "}))
        two == CollapseSpaces(StripChars(one, {"-", " "}))
    IN  CollapseSpaces(StripChars(SubNumbers(two), {"-", " "}))

\* COMMON_VARIANT_KEYWORDS_TO_DETECT_AND_CLEAN (lines 40-73) in lower case, as
\* sorted(keywords_list, key=len, reverse=True) orders it
sorted_keywords ==
    <<
     <<"fa_bedun", " ", "fa_tabligat">>, <<"armeabi", "-", "v7a">>,
     <<"fa_mod", " ", "fa_ekstra">>, <<"mod", "-", "extra">>,
     <<"fa_modekstra">>, <<"fa_anlak", " ", "fa_shodeh">>, <<"universal">>,
     <<"fa_yuniversal">>, <<"arm64", "-", "v8a">>, <<"mod", "-", "lite">>,
     <<"fa_mod", " ", "fa_lait">>, <<"unlocked">>, <<"original">>,
     <<"fa_orijinal">>, <<"fa_kampiuter">>,
     <<"fa_vi", " ", "fa_ay", " ", "fa_pi">>, <<"document">>,
     <<"fa_modlait">>, <<"ad", "-", "free">>, <<"patched">>, <<"premium">>,
     <<"persian">>, <<"english">>, <<"fa_englisi">>, <<"windows">>,
     <<"archive">>, <<"fa_pach", " ", "fa_shodeh">>, <<"fa_permium">>,
     <<"fa_mamuli">>, <<"x86_64">>, <<"fa_vinduz">>, <<"fa_linuks">>,
     <<"fa_ultra">>, <<"fa_anlak">>, <<"fa_farsi">>, <<"arm64">>,
     <<"armv7">>, <<"macos">>, <<"linux">>, <<"ultra">>, <<"clone">>,
     <<"image">>, <<"fa_tasvir">>, <<"audio">>, <<"video">>, <<"fa_vidiu">>,
     <<"fa_arshiv">>, <<"fa_asli">>, <<"fa_klon">>, <<"beta">>, <<"full">>,
     <<"fa_kamel">>, <<"lite">>, <<"fa_lait">>, <<"main">>, <<"data">>,
     <<"fa_dita">>, <<"plus">>, <<"fa_plas">>, <<"fa_soti">>, <<"text">>,
     <<"font">>, <<"fa_font">>, <<"arm">>, <<"x86">>, <<"mac">>, <<"osx">>,
     <<"fa_beta">>, <<"obb">>, <<"mod">>, <<"fa_mod">>, <<"pro">>,
     <<"fa_pro">>, <<"vip">>, <<"fa_sanad">>, <<"fa_matn">>, <<"pc">>
    >>

\* re.sub(r'\b' + kw + r'\b', '', name, flags=re.IGNORECASE)
RECURSIVE SubKeyword(_, _)
SubKeyword(kw, text) ==
    IF Len(text) < Len(kw) THEN text
    ELSE IF LowerText(SubSeq(text, 1, Len(kw))) = kw
         THEN SubKeyword(kw, SubSeq(text, Len(kw) + 1, Len(text)))
         ELSE <<Head(text)>> \o SubKeyword(kw, Tail(text))

\* lines 141-146: the loop over the sorted keywords, from the i-th on; a
\* keyword that does not occur leaves the name as it is
RECURSIVE RemoveKeywords(_, _)
RemoveKeywords(i, text) ==
    LET found == {j \in i..Len(sorted_keywords) :
                      Occurs(sorted_keywords[j], LowerText(text))}
    IN  IF found = {} THEN text
        ELSE RemoveKeywords(Min(found) + 1,
                 CollapseSpaces(StripChars(SubKeyword(sorted_keywords[Min(found)], text),
                                           {"-", " "})))

\* lines 133-152
aggressively_clean_name(name_to_clean) ==
    CollapseSpaces(StripChars(RemoveKeywords(1, RemoveVersionPatterns(name_to_clean)),
                              {"-", " "}))

\* lines 154-186 for a page whose h1.title has text: the version patterns are
\* removed from it, each followed by strip("-_ "), and white space is collapsed;
\* the texts of the model keep a word of the name, so that the name is not
\* taken from the title tag or the URL
extract_app_name_from_page(h1) ==
    CollapseSpaces(StripChars(SubNumbers(StripChars(SubVersions(h1), {"-", " "})),
                              {"-", " "}))

\* the string a text stands for
RECURSIVE Render(_)
Render(text) == IF text = <<>> THEN "" ELSE Head(text) \o Render(Tail(text))

\* a in b, for strings
IsSubstring(a, b) ==
    \E i \in 1..(Len(b) - Len(a) + 1) : SubSeq(b, i, i + Len(a) - 1) = a

\* str.split(sep) of a string, for a one-character separator
RECURSIVE SplitString(_, _)
SplitString(s, sep) ==
    LET At == {i \in 1..Len(s) : SubSeq(s, i, i) = sep}
    IN  IF At = {} THEN <<s>>
        ELSE <<SubSeq(s, 1, Min(At) - 1)>> \o SplitString(SubSeq(s, Min(At) + 1, Len(s)), sep)

\* str.replace(x \o y, r) for two adjacent tokens x, y
RECURSIVE ReplacePair(_, _, _, _)
ReplacePair(text, x, y, r) ==
    IF Len(text) < 2 THEN text
    ELSE IF text[1] = x /\ text[2] = y
         THEN <<r>> \o ReplacePair(SubSeq(text, 3, Len(text)), x, y, r)
         ELSE <<Head(text)>> \o ReplacePair(Tail(text), x, y, r)

\* re.sub(r'_+', '_', text)
RECURSIVE CollapseUnderscores(_)
CollapseUnderscores(text) ==
    IF Len(text) < 2 THEN text
    ELSE IF text[1] = "_" /\ text[2] = "_" THEN CollapseUnderscores(Tail(text))
    ELSE <<Head(text)>> \o CollapseUnderscores(Tail(text))

\* lines 113-131, for a text without brackets and other special characters
sanitize_text(text, for_filename) ==
    LET stripped == StripChars(text, {" "})
        lowered == LowerText(stripped)
        underscored == [i \in 1..Len(lowered) |->
                            IF lowered[i] = " " THEN "_" ELSE lowered[i]]
    IN  IF text = <<>> THEN <<>>
        ELSE IF for_filename
        THEN StripChars(CollapseUnderscores(
                 ReplacePair(ReplacePair(underscored, "-", "_", "_"), "_", "-", "_")),
                 {"_"})
        ELSE StripChars(underscored, {"_"})

\* lines 354-359: the lower-case file name and link text joined by a space,
\* with the standalone numbers removed
combined_text_for_variant_detection(filename_from_url_decoded, link_text_of_li) ==
    LET joined == StripChars(LowerText(filename_from_url_decoded) \o <<" ">>
                                 \o LowerText(link_text_of_li), {" "})
    IN  StripChars([i \in 1..Len(joined) |-> IF IsDigits(joined[i]) THEN "" ELSE joined[i]],
                   {" "})

\* lines 288-298, without the leading dots
known_extensions ==
    {
     "apk", "zip", "exe", "rar", "xapk", "apks", "7z", "gz", "bz2", "xz",
     "msi", "dmg", "pkg", "deb", "rpm", "appimage", "tgz", "tbz2", "txz",
     "jpg", "jpeg", "png", "gif", "bmp", "tiff", "tif", "webp", "svg", "ico",
     "mp3", "wav", "ogg", "aac", "flac", "m4a", "wma", "mp4", "mkv", "avi",
     "mov", "wmv", "flv", "webm", "mpeg", "mpg", "txt", "pdf", "doc", "docx",
     "xls", "xlsx", "ppt", "pptx", "odt", "ods", "odp", "rtf", "csv", "html",
     "htm", "xml", "json", "md", "ttf", "otf", "woff", "woff2", "eot"
    }

\* lines 278-313: the extension of the file name, or one guessed from the
\* words of the combined text
get_file_extension_from_url(filename, combined_text) ==
    LET n == Len(filename)
        has_ext == n >= 3 /\ filename[n - 1] = "."
        ext_from_url == IF has_ext THEN "." \o Lower(filename[n]) ELSE ""
        double == n >= 5 /\ filename[n - 3] = "." /\ Lower(filename[n - 2]) = "tar"
                    /\ has_ext /\ Lower(filename[n]) \in {"gz", "bz2", "xz"}
    IN  IF double THEN ".tar." \o Lower(filename[n])
        ELSE IF has_ext /\ Lower(filename[n]) \in known_extensions THEN ext_from_url
        ELSE IF IsSubstring("windows", combined_text) \/ IsSubstring("pc", combined_text)
             THEN ".exe"
        ELSE IF IsSubstring("macos", combined_text) \/ IsSubstring("mac", combined_text)
             THEN ".dmg"
        ELSE IF IsSubstring("linux", combined_text) THEN ".appimage"
        ELSE IF IsSubstring("data", combined_text) \/ IsSubstring("obb", combined_text)
             THEN ".zip"
        ELSE IF IsSubstring("font", combined_text) THEN ".zip"
        ELSE IF has_ext THEN ext_from_url
        ELSE ".bin"

\* lines 376-399: the tags of the link: those the scan finds; without any, the
\* operating system of the extension, or Universal or Main for an .apk
link_variant_parts(combined, file_extension) ==
    LET scanned == DetectVariants(combined)
        combined_text == Render(combined)
    IN  IF scanned # <<>> THEN scanned
        ELSE IF file_extension \in {".exe", ".msi"} THEN <<"Windows">>
        ELSE IF file_extension \in {".dmg", ".pkg"} THEN <<"macOS">>
        ELSE IF file_extension \in {".deb", ".rpm", ".appimage"} THEN <<"Linux">>
        ELSE IF file_extension = ".apk"
             THEN IF \/ IsSubstring("universal", combined_text)
                     \/ IsSubstring("fa_asli", combined_text)
                     \/ IsSubstring("original", combined_text)
                     \/ IsSubstring("fa_mamuli", combined_text)
                  THEN <<"Universal">>
                  ELSE IF IsSubstring("main", combined_text) THEN <<"Main">>
                  ELSE <<>>
        ELSE <<>>

\* line 402: sorted(list(set(parts)))
unique_link_variant_parts(parts) == SelectSeq(SortedTags, LAMBDA tag : InSeq(tag, parts))

\* lines 409-413
variant_for_display_and_tracking(unique_parts, file_extension) ==
    IF unique_parts # <<>> THEN unique_parts
    ELSE IF file_extension = ".apk" THEN <<"Universal">>
    ELSE <<"Default">>

\* the lower-case text of a tag
TagText(tag) ==
    IF \E i \in 1..Len(variant_keywords_ordered) : variant_keywords_ordered[i].key = tag
    THEN LET i == CHOOSE j \in 1..Len(variant_keywords_ordered) :
                      variant_keywords_ordered[j].key = tag
         IN  variant_keywords_ordered[i].patterns[1]
    ELSE CASE tag = "Universal" -> <<"universal">>
           [] tag = "Default" -> <<"default">>
           [] tag = "Windows" -> <<"windows">>
           [] tag = "macOS" -> <<"macos">>
           [] tag = "Linux" -> <<"linux">>
           [] tag = "Main" -> <<"main">>

\* "-".join(tags) in lower case
RECURSIVE JoinTags(_)
JoinTags(tags) ==
    IF tags = <<>> THEN <<>>
    ELSE IF Len(tags) = 1 THEN TagText(Head(tags))
    ELSE TagText(Head(tags)) \o <<"-">> \o JoinTags(Tail(tags))

\* lines 420-429
tracking_id_of(base_app_name_for_tracking_id, variant, file_extension) ==
    LET base == IF base_app_name_for_tracking_id = <<>>
                THEN <<"unknownappfortracking">>
                ELSE base_app_name_for_tracking_id
        tracking_id_app_part == Render(sanitize_text(base, FALSE))
        tracking_id_variant_part == Render(JoinTags(variant))
    IN  IF variant \in {<<"Default">>, <<"Universal">>} /\ file_extension # ".apk"
        THEN tracking_id_app_part
        ELSE tracking_id_app_part \o "_" \o tracking_id_variant_part

\* "_".join(parts) for strings
RECURSIVE JoinStrings(_)
JoinStrings(parts) ==
    IF parts = <<>> THEN ""
    ELSE IF Len(parts) = 1 THEN Head(parts)
    ELSE Head(parts) \o "_" \o JoinStrings(Tail(parts))

\* mutant: the parts are joined as they come
final_filename_components_AsIs(filename_parts) == SelectSeq(filename_parts, LAMBDA part : part # "")

\* lines 465-471: every part once, in the order of first occurrence
RECURSIVE final_filename_components(_)
final_filename_components(filename_parts) ==
    IF filename_parts = <<>> THEN <<>>
    ELSE LET n == Len(filename_parts)
             front == final_filename_components(SubSeq(filename_parts, 1, n - 1))
         IN  IF filename_parts[n] = "" \/ InSeq(filename_parts[n], front)
             THEN front
             ELSE Append(front, filename_parts[n])

\* lines 433-461: the app name, "v" and the version, the pieces of the link's
\* tags that the app name does not hold, and "universal" for a plain .apk
filename_parts_of(page_app_name_full, current_version, unique_parts, file_extension) ==
    LET app_name_for_file_sanitized == Render(sanitize_text(page_app_name_full, TRUE))
        sanitized_version == sanitize_text(current_version, TRUE)
        version_for_file == Render([i \in 1..Len(sanitized_version) |->
                                       IF sanitized_version[i] = "." THEN "_"
                                       ELSE sanitized_version[i]])
        app_name_tokens == SplitString(app_name_for_file_sanitized, "_")
        is_sub_part_of_existing(part) ==
            \E i \in 1..Len(app_name_tokens) :
                IsSubstring(part, app_name_tokens[i]) /\ Len(part) < Len(app_name_tokens[i])
        pieces == SelectSeq(JoinTags(unique_parts), LAMBDA t : t # "-")
        added == SelectSeq(pieces, LAMBDA part :
                     /\ ~InSeq(part, app_name_tokens)
                     /\ ~is_sub_part_of_existing(part))
        with_variant == <<app_name_for_file_sanitized>>
                            \o (IF version_for_file # "" THEN <<"v" \o version_for_file>>
                                ELSE <<>>)
                            \o added
        is_already_varianted ==
            \E vp \in {"mod", "lite", "premium", "vip", "pro", "unlocked", "patched",
                        "clone", "beta", "full", "plus", "ultra"} : InSeq(vp, with_variant)
    IN  IF /\ file_extension = ".apk"
           /\ ~InSeq("universal", with_variant)
           /\ unique_parts \in {<<>>, <<"Universal">>}
           /\ ~is_already_varianted
        THEN Append(with_variant, "universal")
        ELSE with_variant

\* lines 473-476: the components joined by "_", the extension, runs of "_"
\* collapsed and "_" stripped from both ends
suggested_filename_of(components, file_extension) ==
    JoinStrings(SelectSeq(SplitString(JoinStrings(components) \o file_extension, "_"),
                          LAMBDA t : t # ""))

-----------------------------------------------------------------------------
(* One download entry: lines 317-478 applied to the texts of a page and of one
   of its items *)

MaxTags == 2

\* the title of the app, the versions and the words of a link
EntryNames == {<<"My", " ", "App">>, <<"Tom", " ", "Tom">>, <<"App", " ", "Pro">>}
EntryVersions == {<<"1", ".", "0">>, <<"1", ".", "1", ".", "1">>,
                  <<"1", ".", "0", "-", "beta">>}
EntryWords == {<<"mod">>, <<"mod", "-", "extra">>, <<"mod", " ", "extra">>,
               <<"mod", "-", "lite">>, <<"lite">>, <<"full">>, <<"vip">>, <<"pro">>,
               <<"premium">>, <<"fa_mod", " ", "fa_ekstra">>}
EntryExtensions == {"apk", "zip"}

\* the words of a link, one after the other with sep between them
RECURSIVE JoinWords(_, _)
JoinWords(words, sep) ==
    IF words = <<>> THEN <<>>
    ELSE <<sep>> \o [i \in 1..Len(Head(words)) |->
                        IF Head(words)[i] = " " THEN sep ELSE Head(words)[i]]
             \o JoinWords(Tail(words), sep)

\* the h1.title of the page: the name and the version
H1Text(e) == e.name \o <<" ">> \o e.version

\* the text of span.txt: the name, the version and the words of the link; ""
\* when the item has no span.txt
LinkText(e) ==
    IF e.label THEN e.name \o <<" ">> \o e.version \o JoinWords(e.tags, " ") ELSE <<>>

\* the file name of the href: name and version joined by "-", the words of the
\* link when no label carries them, and the extension
FileName(e) ==
    [i \in 1..Len(e.name) |-> IF e.name[i] = " " THEN "-" ELSE e.name[i]]
        \o <<"-">> \o e.version
        \o (IF e.label THEN <<>> ELSE JoinWords(e.tags, "-"))
        \o <<".", e.ext>>

\* lines 317-478 for one item: what scrape_farsroid_page derives from it
DeriveEntry(e) ==
    LET page_app_name_full == extract_app_name_from_page(H1Text(e))
        base_app_name_for_tracking_id == aggressively_clean_name(page_app_name_full)
        filename_from_url_decoded == FileName(e)
        current_version ==
            extract_version_from_text_or_url(MatchesIn(LinkText(e)),
                                             MatchesIn(filename_from_url_decoded))
        combined == combined_text_for_variant_detection(filename_from_url_decoded,
                                                        LinkText(e))
        file_extension == get_file_extension_from_url(filename_from_url_decoded,
                                                      Render(combined))
        parts == link_variant_parts(combined, file_extension)
        unique_parts == unique_link_variant_parts(parts)
        variant == variant_for_display_and_tracking(unique_parts, file_extension)
        filename_parts == filename_parts_of(page_app_name_full, current_version,
                                            unique_parts, file_extension)
        components == final_filename_components(filename_parts)
    IN  [done |-> TRUE,
         app_name |-> Render(page_app_name_full),
         current_version |-> Render(current_version),
         link_variant_parts |-> parts,
         variant |-> variant,
         file_extension |-> file_extension,
         tracking_id |-> tracking_id_of(base_app_name_for_tracking_id, variant,
                                        file_extension),
         components |-> components,
         suggested_filename |-> suggested_filename_of(components, file_extension)]

InitEntry ==
    /\ RunIdle
    /\ CompareIdle
    /\ entry \in [name : EntryNames, version : EntryVersions,
                   tags : SeqsUpTo(EntryWords, MaxTags), ext : EntryExtensions,
                   label : BOOLEAN]
    /\ derived = NoDerived
    /\ RerunIdle

\* one iteration of the loop over found_lis, up to line 478
ProcessEntry ==
    /\ ~derived.done
    /\ derived' = DeriveEntry(entry)
    /\ UNCHANGED entry
    /\ UNCHANGED runVars
    /\ UNCHANGED cmpVars
    /\ UNCHANGED rerunVars

NextEntry == ProcessEntry

SpecEntry == InitEntry /\ [][NextEntry]_vars

-----------------------------------------------------------------------------
(* Runs of main over pages that stay as they are *)

\* lines 336-497: the records of a page, from its items in document order; an
\* exception leaves the function with no records (lines 534-536)
RECURSIVE scrape_farsroid_page(_, _, _)
scrape_farsroid_page(found_lis, tracker, updates) ==
    IF found_lis = <<>> THEN updates
    ELSE LET li == Li(Head(found_lis))
             is_update == compare_versions(li.current_version,
                                           LastKnownVersion(tracker, li.tracking_id))
         IN  IF li.kind # "entry"
             THEN scrape_farsroid_page(Tail(found_lis), tracker, updates)
             ELSE IF is_update = "TypeError" THEN <<>>
             ELSE scrape_farsroid_page(Tail(found_lis), tracker,
                      IF is_update = "True"
                      THEN Append(updates, UpdateRecord(li.tracking_id, li.current_version))
                      ELSE updates)

\* lines 520-536: the records of all pages, in the order of the URL list
RECURSIVE UpdatesOfPages(_, _)
UpdatesOfPages(page_list, tracker) ==
    IF page_list = <<>> THEN <<>>
    ELSE scrape_farsroid_page(Head(page_list), tracker, <<>>)
             \o UpdatesOfPages(Tail(page_list), tracker)

\* the number of items on all pages
RECURSIVE TotalLis(_)
TotalLis(page_list) ==
    IF page_list = <<>> THEN 0 ELSE Len(Head(page_list)) + TotalLis(Tail(page_list))

InitRerun ==
    /\ pc = "start"
    /\ env_GITHUB_OUTPUT = "writable"
    /\ pages \in {page_list \in SeqsUpTo(SeqsUpTo(FoundLis, MaxLis), MaxUrls) \ {<<>>} :
                      TotalLis(page_list) <= MaxLis}
    /\ urls_to_process = [i \in 1..Len(pages) |-> "url"]
    /\ url_idx = 0
    /\ tracking_file \in TrackingFiles
    /\ tracker_data = EmptyDict
    /\ all_updates_found = <<>>
    /\ updates_found_on_page = <<>>
    /\ n_found_lis = 0
    /\ li_idx = 0
    /\ last_li = NoLi
    /\ page_content = NoneSource
    /\ pages_fetched = 0
    /\ output_json = [written |-> FALSE, data |-> <<>>]
    /\ github_output = <<>>
    /\ tracker_saved = FALSE
    /\ exit_code = -1
    /\ run = 0
    /\ CompareIdle
    /\ EntryIdle

\* lines 499-556: one run of main from its start to its end, over a URL list
\* whose pages are all fetched and hold the items of pages
MainRun ==
    /\ pc \in {"start", "done"}
    /\ run < 2
    /\ LET loaded == load_tracker(tracking_file)
           found == UpdatesOfPages(pages, loaded)
       IN  /\ tracker_data' = loaded
           /\ all_updates_found' = found
           /\ output_json' = [written |-> TRUE, data |-> found]
           /\ \E save \in TrackingFileAfterSave(MergeUpdates(loaded, found)) :
                 /\ tracking_file' = save.file
                 /\ tracker_saved' = save.saved
           /\ github_output' = WriteCount(Len(found))
    /\ url_idx' = Len(urls_to_process) + 1
    /\ pages_fetched' = pages_fetched + Len(urls_to_process)
    /\ page_content' = Markup(Len(pages[Len(pages)]))
    /\ exit_code' = 0
    /\ pc' = "done"
    /\ run' = run + 1
    /\ UNCHANGED <<env_GITHUB_OUTPUT, urls_to_process, updates_found_on_page,
                   n_found_lis, li_idx, last_li, pages>>
    /\ UNCHANGED cmpVars
    /\ UNCHANGED entryVars

NextRerun == MainRun

SpecRerun == InitRerun /\ [][NextRerun]_vars

-----------------------------------------------------------------------------
(* Properties of the update decision inside scrape_farsroid_page and of the  *)
(* tracker life cycle                                                        *)

HasRecord(updates, k) == \E i \in 1..Len(updates) : updates[i].tracking_id = k

\* the version of the last record of updates that has tracking id k
LastVersionFor(updates, k) ==
    LET i == CHOOSE j \in 1..Len(updates) :
                 /\ updates[j].tracking_id = k
                 /\ \A m \in (j + 1)..Len(updates) : updates[m].tracking_id # k
    IN  updates[i].version

\* the version a is the string b, or both parse and a is the older one
OlderOrEqual(a, b) ==
    \/ a = b
    \/ parse(a).valid /\ parse(b).valid /\ VersionLess(parse(a), parse(b))

\* a step of the loop over found_lis that processed an entry with a version
EntryStep == pc = "scrape" /\ li_idx <= n_found_lis /\ last_li'.li.kind = "entry"

\* C1: an entry whose version was extracted appends an update record to the
\* page's records exactly when compare_versions(its version, the version stored
\* in the tracker for its tracking id, "0.0.0" when the id is absent) is true;
\* an entry older than or equal to the stored version appends nothing; and the
\* step changes neither the tracker nor the tracking file.
C1_EmitIffNewer ==
    [][EntryStep =>
        LET li == last_li'.li
            stored == DictGet(tracker_data, li.tracking_id, JStr(ZeroVersion))
            newer == compare_versions(li.current_version, stored) = "True"
            emitted == updates_found_on_page' =
                           Append(updates_found_on_page,
                                  UpdateRecord(li.tracking_id, li.current_version))
        IN  /\ emitted <=> newer
            /\ ~newer => Len(updates_found_on_page') <= Len(updates_found_on_page)
            /\ (stored.type = "str" /\ OlderOrEqual(li.current_version, stored.str))
                   => ~emitted
            /\ tracker_data' = tracker_data
            /\ tracking_file' = tracking_file
            /\ all_updates_found' = all_updates_found]_vars

\* an older entry was rejected on a page that already gave a record
C1_Witness ==
    /\ pc = "scrape"
    /\ last_li.outcome = "False"
    /\ last_li.last_known_version = JStr(V11)
    /\ last_li.li.current_version = V1
    /\ updates_found_on_page # <<>>

\* the tracking file holds d, overwritten by the last record of each tracking id
IsMergeOf(file, d, updates) ==
    /\ file.kind = "object"
    /\ DOMAIN file.data = DOMAIN d \cup {updates[i].tracking_id : i \in 1..Len(updates)}
    /\ \A k \in DOMAIN file.data :
          file.data[k] = IF HasRecord(updates, k)
                           THEN JStr(LastVersionFor(updates, k))
                           ELSE d[k]

AcceptedBefore ==
    all_updates_found \o
        (IF last_li.outcome = "True"
         THEN SubSeq(updates_found_on_page, 1, Len(updates_found_on_page) - 1)
         ELSE updates_found_on_page)

\* C3 as claimed: once a record with tracking id k and version v was accepted
\* in a run, every later entry of the run with tracking id k is compared
\* against v, not against the value loaded at the start of the run.
C3_ComparedAgainstAccepted ==
    (pc = "scrape" /\ last_li.li.kind = "entry"
        /\ HasRecord(AcceptedBefore, last_li.li.tracking_id))
        => last_li.last_known_version =
               JStr(LastVersionFor(AcceptedBefore, last_li.li.tracking_id))

-----------------------------------------------------------------------------
(* Properties of compare_versions *)

BothParse == /\ cv_last.type = "str"
             /\ parse(cv_current).valid
             /\ parse(cv_last.str).valid

\* C4: when both strings parse and the last one is neither empty nor "0.0.0",
\* compare_versions is true for a numerically greater current version, false
\* for a numerically smaller one and, when the parsed values are equal, true
\* exactly when the strings differ and the current one is lexicographically
\* greater.
C4_NumericOrderThenTiebreak ==
    (cv_result # "pending" /\ BothParse /\ cv_last.str # ZeroVersion)
        => LET a == parse(cv_current)
               b == parse(cv_last.str)
           IN  /\ VersionGreater(a, b) => cv_result = "True"
               /\ VersionLess(a, b) => cv_result = "False"
               /\ (~VersionGreater(a, b) /\ ~VersionLess(a, b))
                      => (cv_result = "True"
                            <=> (cv_current # cv_last.str
                                   /\ StrGreater(cv_current, cv_last.str)))
               /\ cv_result \in {"True", "False"}

\* "1.0" against "1": equal when parsed, different strings, "1.0" is greater
C4_Witness ==
    /\ cv_current = <<"1", ".", "0">>
    /\ cv_last = JStr(<<"1">>)
    /\ cv_result = "True"

\* C5: compare_versions(x, "0.0.0") and compare_versions(x, an absent or empty
\* last version) are true for every non-empty x; compare_versions("", y) is
\* false for every y, also for the y of the first-time-seen rule.
C5_FirstSeenAndEmpty ==
    (cv_result # "pending")
        => /\ cv_current = <<>> => cv_result = "False"
           /\ (cv_current # <<>> /\ (cv_last = JStr(ZeroVersion) \/ ~Truthy(cv_last)))
                  => cv_result = "True"

\* the empty current version against the placeholder "0.0.0"
C5_Witness ==
    /\ cv_current = <<>>
    /\ cv_last = JStr(ZeroVersion)
    /\ cv_result = "False"

\* parse raises for one of the two arguments
ParsingFails ==
    \/ ~parse(cv_current).valid
    \/ cv_last.type # "str"
    \/ ~parse(cv_last.str).valid

\* C6 as claimed: compare_versions never raises; for every pair of inputs, with
\* a last-known value of any JSON type, it returns a boolean, and whenever
\* parsing fails the result is (current != last and current > last) under string
\* comparison, where a str differs from and does not order above a non-str.
C6_NeverRaises ==
    (cv_result # "pending")
        => /\ cv_result \in {"True", "False"}
           /\ (cv_current # <<>> /\ Truthy(cv_last) /\ cv_last # JStr(ZeroVersion)
                 /\ ParsingFails)
                  => (cv_result = "True"
                        <=> (cv_last.type = "str" /\ cv_current # cv_last.str
                               /\ StrGreater(cv_current, cv_last.str)))

-----------------------------------------------------------------------------
(* Properties of a run of main() *)

\* C7 as claimed: with the URL list missing the run writes an empty output
\* array and the count 0 and exits non-zero; with a list that has no usable URL
\* it writes the same and exits zero; in both cases the count is emitted and no
\* page is fetched.
C7_EarlyExitEmitsCount ==
    /\ pc = "exit_missing_list"
           => /\ output_json = [written |-> TRUE, data |-> <<>>]
              /\ github_output = <<0>>
              /\ exit_code # 0
              /\ pages_fetched = 0
    /\ pc = "return_empty_list"
           => /\ output_json = [written |-> TRUE, data |-> <<>>]
              /\ github_output = <<0>>
              /\ exit_code = 0
              /\ pages_fetched = 0

\* C8 as claimed: every run, with the tracking file missing or corrupt and with
\* any fetch failures and processing errors, has written the output file when
\* it ends; a run that finds the tracking file missing or corrupt works on an
\* empty tracker.
C8_OutputAlwaysWritten ==
    /\ Ended => output_json.written
    /\ (pc \in {"loop", "scrape"}
          /\ tracking_file.kind \in {"missing", "corrupt", "undecodable"})
           => tracker_data = EmptyDict

IsPrefix(p, q) == Len(p) <= Len(q) /\ SubSeq(q, 1, Len(p)) = p

C10_SignalNeverFailsRun ==
    /\ pc = "exit_missing_list" => (exit_code = 1 /\ output_json.written)
    /\ pc = "return_empty_list" => (exit_code = 0 /\ output_json.written)
    /\ pc = "done" => (exit_code = 0 /\ output_json.written)

-----------------------------------------------------------------------------
(* C11: items of a page that are skipped *)

\* a step of the loop over found_lis
LiStep == pc = "scrape" /\ li_idx <= n_found_lis

\* the step went on to the next item of the same page with the same records
SkippedLi ==
    /\ updates_found_on_page' = updates_found_on_page
    /\ li_idx' = li_idx + 1
    /\ n_found_lis' = n_found_lis
    /\ pc' = "scrape"
    /\ url_idx' = url_idx
    /\ all_updates_found' = all_updates_found

\* C11 as claimed: an item with no extractable version, with a missing anchor
\* or href, or with a missing label span yields no record, and the loop goes
\* on with the next item of the page.
C11_Original ==
    [][(LiStep /\ (\/ last_li'.li.current_version = NoVersion
                   \/ last_li'.li.anchor # "href"
                   \/ ~last_li'.li.span))
          => SkippedLi]_vars

\* C11: an item with a missing anchor or href, or with no version extractable
\* from its label text and its file name, yields no record and the loop goes on
\* with the next item of the page; items are taken one by one in document
\* order; an item whose label span is missing is treated as one with an empty
\* label, and is an entry exactly when its file name gives a version.
C11_SkippedItems ==
    [][LiStep =>
        LET li == last_li'.li IN
        /\ (li.anchor # "href" \/ li.current_version = NoVersion)
               <=> last_li'.outcome = "skipped"
        /\ last_li'.outcome = "skipped" => SkippedLi
        /\ li_idx' \in {li_idx + 1, 0}
        /\ (li.anchor = "href" /\ ~li.span)
               => /\ li.kind = "entry" <=> li.file # NoMatch
                  /\ li.current_version = IF li.file.primary # NoVersion
                                          THEN li.file.primary
                                          ELSE li.file.fallback]_vars

\* the first item of a page gave a record, the second had no label span and no
\* version and was skipped
C11_Witness ==
    /\ pc = "scrape"
    /\ li_idx = 3
    /\ last_li.outcome = "skipped"
    /\ last_li.li.anchor = "href"
    /\ ~last_li.li.span
    /\ Len(updates_found_on_page) = 1

-----------------------------------------------------------------------------
(* C12-C15: the tracking id, the suggested file name and the tags of an entry *)

\* the combined text of the entry, as the scan for tags reads it
CombinedText == combined_text_for_variant_detection(FileName(entry), LinkText(entry))

\* C12 as claimed: the tracking id of an entry does not depend on its version:
\* the same name, link words, extension and label with any other version in the
\* title, link text and file name, a version with a suffix such as -beta
\* included, give the same tracking id.
C12_KeyIndependentOfVersion ==
    derived.done
        => \A v \in EntryVersions :
               DeriveEntry([entry EXCEPT !.version = v]).tracking_id = derived.tracking_id

\* the tokens of the suggested file name: extension removed, split on "_"
FilenameTokens ==
    SplitString(SubSeq(derived.suggested_filename, 1,
                       Len(derived.suggested_filename) - Len(derived.file_extension)),
                "_")

\* C13 as claimed: the suggested file name, extension removed and split on
\* underscores, never has two identical tokens next to each other.
C13_Original ==
    derived.done
        => \A i \in 1..(Len(FilenameTokens) - 1) : FilenameTokens[i] # FilenameTokens[i + 1]

\* C13: the suggested file name is its components (the app name, "v" and the
\* version, the pieces of the tags) joined by "_" and followed by the
\* extension, and no component occurs twice, whatever the app name, version and
\* tags are.
C13_NoRepeatedComponent ==
    derived.done
        => /\ \A i, j \in 1..Len(derived.components) :
                  derived.components[i] = derived.components[j] => i = j
           /\ \A i \in 1..Len(derived.components) : derived.components[i] # ""
           /\ derived.suggested_filename =
                  JoinStrings(derived.components) \o derived.file_extension

\* the tags Mod-Extra and Mod-Lite both give the piece "mod", which the file
\* name holds once
C13_Witness ==
    /\ derived.done
    /\ InSeq("Mod-Extra", derived.variant)
    /\ InSeq("Mod-Lite", derived.variant)
    /\ derived.suggested_filename = "my_app_v1_0_mod_extra_lite.apk"

\* the final tags of the entry
HasTag(tag) == InSeq(tag, derived.variant) \/ InSeq(tag, derived.link_variant_parts)

\* C14 as claimed: a combined text that has "mod extra" (the two words in a
\* row, with a space or a hyphen between them) and "mod" gives the tag
\* Mod-Extra and not the tag Mod; and whenever Mod-Extra or Mod-Lite is found,
\* Mod is not among the final tags.
C14_Original ==
    derived.done
        => /\ (\/ Occurs(<<"mod", " ", "extra">>, CombinedText)
                \/ Occurs(<<"mod", "-", "extra">>, CombinedText))
                  => HasTag("Mod-Extra") /\ ~HasTag("Mod")
           /\ (HasTag("Mod-Extra") \/ HasTag("Mod-Lite")) => ~HasTag("Mod")

\* C14: a combined text that has a keyword of Mod-Extra ("mod-extra" or the
\* Persian "mod extra") gives the tag Mod-Extra and not the tag Mod, also when
\* it has "mod"; and whenever Mod-Extra or Mod-Lite is found, Mod is not among
\* the final tags.
C14_ModExtraSuppressesMod ==
    derived.done
        => /\ (\/ Occurs(<<"mod", "-", "extra">>, CombinedText)
                \/ Occurs(<<"fa_mod", " ", "fa_ekstra">>, CombinedText))
                  => HasTag("Mod-Extra") /\ ~HasTag("Mod")
           /\ (HasTag("Mod-Extra") \/ HasTag("Mod-Lite")) => ~HasTag("Mod")

\* a link text with "mod-extra" and then "mod" gave Mod-Extra alone
C14_Witness ==
    /\ derived.done
    /\ entry.label
    /\ entry.tags = <<(<<"mod", "-", "extra">>), (<<"mod">>)>>
    /\ derived.variant = <<"Mod-Extra">>

\* C15 as claimed: the final tags never hold Full together with one of
\* Premium, Unlocked, VIP, Pro and Plus, wherever those stand in the scan order.
C15_FullExcludesPremiumFamily ==
    derived.done
        => ~(/\ HasTag("Full")
             /\ \E k \in {"Premium", "Unlocked", "VIP", "Pro", "Plus"} : HasTag(k))

-----------------------------------------------------------------------------
(* C16: a second run over pages that have not changed *)

\* C16 as claimed: when a run has ended and has saved the tracking file, a
\* second run over the same URL list with the same page contents, which saves
\* the tracking file too, finds no update record and leaves the saved tracker
\* as it was, also when entries of the first run share a tracking id.
C16_SecondRunIdempotent ==
    [][(run = 1 /\ run' = 2 /\ tracker_saved /\ tracker_saved')
          => /\ all_updates_found' = <<>>
             /\ tracking_file' = tracking_file]_vars

=============================================================================
